---- MODULE Spec2Model ----
(***************************************************************************)
(* Model of the student-details form application (src/index.py): the       *)
(* validator, the per-session state (csrf_token, form_data), the three     *)
(* routes GET /, POST /preview and POST /submit, and the two sinks         *)
(* save_to_csv and send_email.                                             *)
(*                                                                         *)
(* A string is a sequence of one-character strings.  A missing form field  *)
(* (request.form.get(..) is None) is modelled as the empty string: every   *)
(* read of a field in the code goes through `or ""` or a truthiness test.  *)
(* An optional value (a session key that may be absent) is a set with at   *)
(* most one element; token 0 stands for "no token" (None or "").           *)
(***************************************************************************)
EXTENDS Integers, Sequences, FiniteSets, TLC

VARIABLES
    session,     \* session[s] = [csrf_token, form_data]: the Flask session of s
    pc,          \* pc[s]: position of the request of s that is in flight
    new_file,    \* new_file[s]: the local of save_to_csv in the submit() of s
    request,     \* request[s]: the last request of s that a handler took up
    response,    \* response[s]: the response to it (once it has ended)
    csv_exists,  \* SUBMISSIONS_CSV.exists()
    csv,         \* contents of SUBMISSIONS_CSV, a sequence of rows
    mail,        \* calls of send_email so far: <<session, data, outcome>>
    MAIL_SET,    \* MAIL_USER and MAIL_PASS are both set in the environment
    next_token,  \* number of the next value os.urandom(16).hex() returns
    issued,      \* history: issued[s] = tokens minted for s, oldest first
    accepted,    \* history: records validate_payload returned (True, data) for in s
    vform,       \* validator specification: the raw form under test
    vresult,     \* validator specification: {} or {validate_payload(vform)}
    previewed    \* history: a POST /preview of s passed validate_csrf since the
                 \* last row that s appended

vars == <<session, pc, new_file, request, response, csv_exists, csv, mail,
          MAIL_SET, next_token, issued, accepted, vform, vresult, previewed>>

----------------------------------------------------------------------------
(* Characters and strings *)

Letters ==
    {"a","b","c","d","e","f","g","h","i","j","k","l","m",
     "n","o","p","q","r","s","t","u","v","w","x","y","z",
     "A","B","C","D","E","F","G","H","I","J","K","L","M",
     "N","O","P","Q","R","S","T","U","V","W","X","Y","Z"}

Digits == {"0","1","2","3","4","5","6","7","8","9"}

\* the characters that \s matches and str.strip() strips (ASCII part)
Whitespace == {" ", "\t", "\n", "\r", "\f"}

IsSpace(c) == c \in Whitespace

Rep(c, n) == [i \in 1..n |-> c]

\* a strip that drops one whitespace character at each end
strip_one(s) ==
    LET a == IF Len(s) > 0 /\ IsSpace(s[1]) THEN 2 ELSE 1
        b == IF Len(s) > 1 /\ IsSpace(s[Len(s)]) THEN Len(s) - 1 ELSE Len(s)
    IN  SubSeq(s, a, b)

\* str.strip()
strip(s) ==
    IF \A i \in 1..Len(s) : IsSpace(s[i]) THEN <<>>
    ELSE LET first == CHOOSE i \in 1..Len(s) :
                          ~IsSpace(s[i]) /\ \A j \in 1..(i-1) : IsSpace(s[j])
             last  == CHOOSE i \in 1..Len(s) :
                          ~IsSpace(s[i]) /\ \A j \in (i+1)..Len(s) : IsSpace(s[j])
         IN  SubSeq(s, first, last)

\* re.sub(r"\s+", " ", t): every maximal run of whitespace becomes one space
collapse(t) ==
    LET idx     == [i \in 1..Len(t) |-> i]
        Keep(i) == ~IsSpace(t[i]) \/ i = 1 \/ ~IsSpace(t[i-1])
        kept    == SelectSeq(idx, Keep)
    IN  [k \in 1..Len(kept) |-> IF IsSpace(t[kept[k]]) THEN " " ELSE t[kept[k]]]

clean_text(s) == collapse(strip(s))

IsDigit(c) == c \in Digits

\* re.sub(r"\D", "", phone)
strip_non_digits(s) == SelectSeq(s, IsDigit)

\* `$` also matches just before a newline that ends the string
DollarForms(s) ==
    {s} \cup (IF Len(s) > 0 /\ s[Len(s)] = "\n" THEN {SubSeq(s, 1, Len(s) - 1)} ELSE {})

NameMin == 2
NameMax == 50
NameTail == Letters \cup {" ", ".", "'", "-"}

\* NAME_REGEX.match
NAME_REGEX(s) ==
    \E t \in DollarForms(s) :
        /\ Len(t) >= NameMin /\ Len(t) <= NameMax
        /\ t[1] \in Letters
        /\ \A i \in 2..Len(t) : t[i] \in NameTail

\* EMAIL_REGEX.match: one "@", no whitespace, and a "." after the "@" with a
\* character on each side of it
EMAIL_REGEX(s) ==
    \E t \in DollarForms(s) :
        /\ \A i \in 1..Len(t) : ~IsSpace(t[i])
        /\ \E p \in 2..Len(t) :
              /\ t[p] = "@"
              /\ \A i \in 1..Len(t) : t[i] = "@" => i = p
              /\ \E q \in (p+2)..(Len(t)-1) : t[q] = "."

PhoneMin == 10
PhoneMax == 15

\* PHONE_REGEX.match
PHONE_REGEX(s) ==
    \E t \in DollarForms(s) :
        /\ Len(t) >= PhoneMin /\ Len(t) <= PhoneMax
        /\ \A i \in 1..Len(t) : t[i] \in Digits

DEPARTMENTS ==
    { <<"B","C","A">>, <<"B","S","c"," ","C","S">>, <<"B","S","c"," ","I","T">>,
      <<"M","C","A">>, <<"M","S","c"," ","C","S">>, <<"E","C","E">>,
      <<"E","E","E">>, <<"C","S","E">>, <<"A","I","M","L">>,
      <<"D","a","t","a"," ","S","c","i","e","n","c","e">> }

TextMin == 3
InterestMax == 300
ShortGoalMax == 600
LongGoalMax == 800

----------------------------------------------------------------------------
(* validate_payload *)

R_BOT      == "Bot detected."
R_NAME     == "Please enter a valid full name."
R_DEPT     == "Please select a valid department."
R_EMAIL    == "Please enter a valid email address."
R_PHONE    == "Phone must be 10-15 digits."
R_INTEREST == "Area of interest must be between 3 and 300 characters."
R_SGOAL    == "Short-term goal must be between 3 and 600 characters."
R_LGOAL    == "Long-term goal must be between 3 and 800 characters."

\* the normalised fields (lines 218-224)
normalize(form) ==
    [ name       |-> clean_text(form.name),
      department |-> clean_text(form.department),
      email      |-> clean_text(form.email),
      phone      |-> strip_non_digits(form.phone),
      interest   |-> clean_text(form.interest),
      short_goal |-> clean_text(form.short_goal),
      long_goal  |-> clean_text(form.long_goal) ]

\* the rules, in the order of the code (lines 215-240), each on the field as
\* lines 218-224 normalise it; rule i holds of a form when its `if` does not
\* reject
RuleOK(i, form) ==
    CASE i = 1 -> form.website = <<>>
      [] i = 2 -> NAME_REGEX(clean_text(form.name))
      [] i = 3 -> clean_text(form.department) \in DEPARTMENTS
      [] i = 4 -> EMAIL_REGEX(clean_text(form.email))
      [] i = 5 -> PHONE_REGEX(strip_non_digits(form.phone))
      [] i = 6 -> LET interest == clean_text(form.interest) IN
                  ~(Len(interest) < TextMin \/ Len(interest) > InterestMax)
      [] i = 7 -> LET sgoal == clean_text(form.short_goal) IN
                  ~(Len(sgoal) < TextMin \/ Len(sgoal) > ShortGoalMax)
      [] i = 8 -> LET lgoal == clean_text(form.long_goal) IN
                  ~(Len(lgoal) < TextMin \/ Len(lgoal) > LongGoalMax)

Reason(i) ==
    CASE i = 1 -> R_BOT   [] i = 2 -> R_NAME  [] i = 3 -> R_DEPT
      [] i = 4 -> R_EMAIL [] i = 5 -> R_PHONE [] i = 6 -> R_INTEREST
      [] i = 7 -> R_SGOAL [] i = 8 -> R_LGOAL

Rejected(why) == [ok |-> FALSE, reason |-> why, data |-> {}]

\* validate_payload with the department test ahead of the name test
validate_payload_dept_first(form) ==
    IF ~RuleOK(1, form) THEN Rejected(R_BOT)
    ELSE IF ~RuleOK(3, form) THEN Rejected(R_DEPT)
    ELSE IF ~RuleOK(2, form) THEN Rejected(R_NAME)
    ELSE IF ~RuleOK(4, form) THEN Rejected(R_EMAIL)
    ELSE IF ~RuleOK(5, form) THEN Rejected(R_PHONE)
    ELSE IF ~RuleOK(6, form) THEN Rejected(R_INTEREST)
    ELSE IF ~RuleOK(7, form) THEN Rejected(R_SGOAL)
    ELSE IF ~RuleOK(8, form) THEN Rejected(R_LGOAL)
    ELSE [ok |-> TRUE, reason |-> "", data |-> {normalize(form)}]

\* returns (True, data) as [ok |-> TRUE, data |-> {data}] and (False, reason)
\* as [ok |-> FALSE, reason |-> reason]
validate_payload(form) ==
    IF ~RuleOK(1, form) THEN Rejected(R_BOT)
    ELSE IF ~RuleOK(2, form) THEN Rejected(R_NAME)
    ELSE IF ~RuleOK(3, form) THEN Rejected(R_DEPT)
    ELSE IF ~RuleOK(4, form) THEN Rejected(R_EMAIL)
    ELSE IF ~RuleOK(5, form) THEN Rejected(R_PHONE)
    ELSE IF ~RuleOK(6, form) THEN Rejected(R_INTEREST)
    ELSE IF ~RuleOK(7, form) THEN Rejected(R_SGOAL)
    ELSE IF ~RuleOK(8, form) THEN Rejected(R_LGOAL)
    ELSE [ok |-> TRUE, reason |-> "", data |-> {normalize(form)}]

\* the raw fields preview() echoes into the session on a rejection (lines 327-335)
raw_fields(form) ==
    [ name       |-> form.name,
      department |-> form.department,
      email      |-> form.email,
      phone      |-> form.phone,
      interest   |-> form.interest,
      short_goal |-> form.short_goal,
      long_goal  |-> form.long_goal ]

----------------------------------------------------------------------------
(* Inputs *)

Sessions == {"A", "B"}

MaxTok  == 4   \* tokens minted in a run
MaxRows == 3   \* lines of submissions.csv in a run, header included

S_JoDo  == <<" ","J","o"," ","\n","D","o"," ">>
S_Al    == <<"A","l">>
S_Bo    == <<"B","o">>
S_JNLo  == <<"J","\n","o">>
S_CSE   == <<"C","S","E">>
S_BTech == <<"B","T","e","c","h">>
S_Mail  == <<"a","@","b",".","c">>
S_Phone == <<"(","1","2","3",")"," ","4","5","6","-","7","8","9","0">>
S_abc   == <<"a","b","c">>

BaseForm ==
    [ website |-> <<>>, name |-> S_Al, department |-> S_CSE, email |-> S_Mail,
      phone |-> S_Phone, interest |-> S_abc, short_goal |-> S_abc,
      long_goal |-> S_abc ]

\* the forms the sessions post: two that validate (the first needs
\* normalising), one that the department rule rejects and whose raw name
\* holds a line feed, and one that fills the honeypot
Forms ==
    { [BaseForm EXCEPT !.name = S_JoDo],
      BaseForm,
      [BaseForm EXCEPT !.name = S_JNLo, !.department = S_BTech],
      [BaseForm EXCEPT !.name = S_Bo, !.website = <<"x">>] }

Actions == {"edit", "confirm", ""}

----------------------------------------------------------------------------
(* Session state and the csrf token *)

MSG_INVALID == "Invalid session. Please try again."
MSG_EXPIRED == "Session expired. Please re-enter your details."

\* new_csrf_token with a token that is the same on every call
new_csrf_token_fixed(sess) == [sess EXCEPT !.csrf_token = 1]

\* new_csrf_token that returns the token without storing it in the session
new_csrf_token_unsaved(sess) == sess

\* session['csrf_token'] = token, with token the fresh value of os.urandom
new_csrf_token(sess) == [sess EXCEPT !.csrf_token = next_token]

\* validate_csrf that accepts every token the session was ever given
validate_csrf_issued(s, token) ==
    token # 0 /\ \E i \in 1..Len(issued[s]) : issued[s][i] = token

\* validate_csrf without the comparison with the stored token
validate_csrf_lax(s, token) == token # 0

\* validate_csrf without the truthiness test of the presented token
validate_csrf_eq(s, token) == session[s].csrf_token = token

validate_csrf(s, token) == token # 0 /\ session[s].csrf_token = token

Redirect(msg) == [view |-> "redirect", flash |-> msg, csrf_token |-> 0, data |-> {}]

Render(tpl, token, d) == [view |-> tpl, flash |-> "", csrf_token |-> token, data |-> d]

Req(k, token, a) == [kind |-> k, csrf_token |-> token, action |-> a]

InFlight == [view |-> "none", flash |-> "", csrf_token |-> 0, data |-> {}]

Mint(s) ==
    /\ next_token <= MaxTok
    /\ next_token' = next_token + 1
    /\ issued' = [issued EXCEPT ![s] = Append(@, next_token)]

----------------------------------------------------------------------------
(* Routes *)

\* GET / that renders an empty form
index_unseeded(s) ==
    /\ pc[s] = "idle"
    /\ Mint(s)
    /\ session' = [session EXCEPT ![s] = new_csrf_token(@)]
    /\ request' = [request EXCEPT ![s] = Req("index", 0, "")]
    /\ response' = [response EXCEPT ![s] = Render("form", next_token, {})]
    /\ UNCHANGED <<pc, new_file, csv_exists, csv, mail, MAIL_SET,
                   accepted, vform, vresult, previewed>>

\* GET /
index(s) ==
    /\ pc[s] = "idle"
    /\ Mint(s)
    /\ session' = [session EXCEPT ![s] = new_csrf_token(@)]
    /\ request' = [request EXCEPT ![s] = Req("index", 0, "")]
    /\ response' = [response EXCEPT
                      ![s] = Render("form", next_token, session[s].form_data)]
    /\ UNCHANGED <<pc, new_file, csv_exists, csv, mail, MAIL_SET,
                   accepted, vform, vresult, previewed>>

\* POST /preview
preview(s, token, form) ==
    /\ pc[s] = "idle"
    /\ request' = [request EXCEPT ![s] = Req("preview", token, "")]
    /\ IF ~validate_csrf(s, token)
       THEN /\ response' = [response EXCEPT ![s] = Redirect(MSG_INVALID)]
            /\ UNCHANGED <<session, next_token, issued, accepted, previewed>>
       ELSE LET r == validate_payload(form) IN
            /\ previewed' = [previewed EXCEPT ![s] = TRUE]
            /\ IF ~r.ok
               THEN /\ session' = [session EXCEPT
                                     ![s].form_data = {raw_fields(form)}]
                    /\ response' = [response EXCEPT ![s] = Redirect(r.reason)]
                    /\ UNCHANGED <<next_token, issued, accepted>>
               ELSE /\ Mint(s)
                    /\ session' = [session EXCEPT
                                     ![s] = new_csrf_token([@ EXCEPT !.form_data = r.data])]
                    /\ response' = [response EXCEPT
                                      ![s] = Render("preview", next_token, r.data)]
                    /\ accepted' = [accepted EXCEPT ![s] = @ \cup r.data]
    /\ UNCHANGED <<pc, new_file, csv_exists, csv, mail, MAIL_SET,
                   vform, vresult>>

Saving == {s \in Sessions : pc[s] \in {"open", "write"}}

\* a submit() that reads session['form_data'] without a default and fails
\* when the key is absent
submit_keyerror(s, token, action) ==
    /\ pc[s] = "idle"
    /\ request' = [request EXCEPT ![s] = Req("submit", token, action)]
    /\ IF ~validate_csrf(s, token)
       THEN /\ response' = [response EXCEPT ![s] = Redirect(MSG_INVALID)]
            /\ UNCHANGED <<pc, new_file>>
       ELSE IF action = "edit"
       THEN /\ response' = [response EXCEPT ![s] = Redirect("")]
            /\ UNCHANGED <<pc, new_file>>
       ELSE IF session[s].form_data = {}
       THEN /\ response' = [response EXCEPT
                              ![s] = [view |-> "error500", flash |-> "",
                                      csrf_token |-> 0, data |-> {}]]
            /\ UNCHANGED <<pc, new_file>>
       ELSE /\ Len(csv) + Cardinality(Saving) < MaxRows
            /\ pc' = [pc EXCEPT ![s] = "open"]
            /\ new_file' = [new_file EXCEPT ![s] = ~csv_exists]
            /\ response' = [response EXCEPT
                              ![s] = [view |-> "none", flash |-> "",
                                      csrf_token |-> 0, data |-> {}]]
    /\ UNCHANGED <<session, csv_exists, csv, mail, MAIL_SET, next_token, issued,
                   accepted, vform, vresult, previewed>>

\* POST /submit, up to the first statement of save_to_csv (line 290)
submit(s, token, action) ==
    /\ pc[s] = "idle"
    /\ request' = [request EXCEPT ![s] = Req("submit", token, action)]
    /\ IF ~validate_csrf(s, token)
       THEN /\ response' = [response EXCEPT ![s] = Redirect(MSG_INVALID)]
            /\ UNCHANGED <<pc, new_file>>
       ELSE IF action = "edit"
       THEN /\ response' = [response EXCEPT ![s] = Redirect("")]
            /\ UNCHANGED <<pc, new_file>>
       ELSE IF session[s].form_data = {}
       THEN /\ response' = [response EXCEPT ![s] = Redirect(MSG_EXPIRED)]
            /\ UNCHANGED <<pc, new_file>>
       ELSE /\ Len(csv) + Cardinality(Saving) < MaxRows
            /\ pc' = [pc EXCEPT ![s] = "open"]
            /\ new_file' = [new_file EXCEPT ![s] = ~csv_exists]
            /\ response' = [response EXCEPT ![s] = InFlight]
    /\ UNCHANGED <<session, csv_exists, csv, mail, MAIL_SET, next_token, issued,
                   accepted, vform, vresult, previewed>>

Header == [kind |-> "header", data |-> {}]

Row(d) == [kind |-> "row", data |-> d]

ServerError == [view |-> "error500", flash |-> "", csrf_token |-> 0, data |-> {}]

\* a submit() that calls send_email ahead of the write of save_to_csv
csv_open_then_email(s) ==
    /\ pc[s] = "open"
    /\ csv_exists' = TRUE
    /\ pc' = [pc EXCEPT ![s] = "email"]
    /\ UNCHANGED <<session, new_file, request, response, csv, mail, MAIL_SET,
                   next_token, issued, accepted, vform, vresult, previewed>>

\* save_to_csv, line 291: open(SUBMISSIONS_CSV, "a") creates the file
csv_open(s) ==
    /\ pc[s] = "open"
    /\ csv_exists' = TRUE
    /\ pc' = [pc EXCEPT ![s] = "write"]
    /\ UNCHANGED <<session, new_file, request, response, csv, mail, MAIL_SET,
                   next_token, issued, accepted, vform, vresult, previewed>>

\* a submit() that pops form_data before it saves
csv_open_fails_cleared(s) ==
    /\ pc[s] = "open"
    /\ pc' = [pc EXCEPT ![s] = "idle"]
    /\ session' = [session EXCEPT ![s].form_data = {}]
    /\ response' = [response EXCEPT ![s] = ServerError]
    /\ UNCHANGED <<new_file, request, csv_exists, csv, mail, MAIL_SET,
                   next_token, issued, accepted, vform, vresult, previewed>>

\* save_to_csv, line 291: open raises (OSError); submit() does not catch it
csv_open_fails(s) ==
    /\ pc[s] = "open"
    /\ pc' = [pc EXCEPT ![s] = "idle"]
    /\ response' = [response EXCEPT ![s] = ServerError]
    /\ UNCHANGED <<session, new_file, request, csv_exists, csv, mail, MAIL_SET,
                   next_token, issued, accepted, vform, vresult, previewed>>

\* save_to_csv, lines 292-300: the header when new_file, then the row; the
\* buffered text reaches the file when the `with` block closes it
csv_write(s) ==
    /\ pc[s] = "write"
    /\ csv' = csv \o (IF new_file[s] THEN <<Header>> ELSE <<>>)
                  \o <<Row(session[s].form_data)>>
    /\ pc' = [pc EXCEPT ![s] = "email"]
    /\ previewed' = [previewed EXCEPT ![s] = FALSE]
    /\ UNCHANGED <<session, new_file, request, response, csv_exists, mail,
                   MAIL_SET, next_token, issued, accepted,
                   vform, vresult>>

\* EmailMessage refuses a header value that holds a line feed or a carriage
\* return (ValueError); the Subject is built from name and department
HeaderOK(d) ==
    /\ \A i \in 1..Len(d.name) : d.name[i] \notin {"\n", "\r"}
    /\ \A i \in 1..Len(d.department) : d.department[i] \notin {"\n", "\r"}

Call(s, d, o) == [sid |-> s, data |-> d, outcome |-> o]

\* send_email(data) as submit() calls it (line 369)
send_email(s) ==
    /\ pc[s] = "email"
    /\ LET data == CHOOSE d \in session[s].form_data : TRUE IN
       IF ~MAIL_SET
       THEN \* lines 255-257
            /\ mail' = Append(mail, Call(s, data, "skipped"))
            /\ pc' = [pc EXCEPT ![s] = "finish"]
            /\ UNCHANGED response
       ELSE IF ~HeaderOK(data)
       THEN \* line 260 raises outside the try block
            /\ mail' = Append(mail, Call(s, data, "raised"))
            /\ pc' = [pc EXCEPT ![s] = "idle"]
            /\ response' = [response EXCEPT ![s] = ServerError]
       ELSE \* lines 278-286: sent, or an exception caught
            /\ \E o \in {"sent", "failed"} : mail' = Append(mail, Call(s, data, o))
            /\ pc' = [pc EXCEPT ![s] = "finish"]
            /\ UNCHANGED response
    /\ UNCHANGED <<session, new_file, request, csv_exists, csv, MAIL_SET,
                   next_token, issued, accepted, vform, vresult, previewed>>

\* submit(), lines 372-381
submit_finish(s) ==
    /\ pc[s] = "finish"
    /\ Mint(s)
    /\ session' = [session EXCEPT ![s] = new_csrf_token([@ EXCEPT !.form_data = {}])]
    /\ response' = [response EXCEPT ![s] = Render("success", next_token, {})]
    /\ pc' = [pc EXCEPT ![s] = "idle"]
    /\ UNCHANGED <<new_file, request, csv_exists, csv, mail, MAIL_SET,
                   accepted, vform, vresult, previewed>>

----------------------------------------------------------------------------
(* Specification of the workflow *)

Idle ==
    /\ session = [s \in Sessions |-> [csrf_token |-> 0, form_data |-> {}]]
    /\ pc = [s \in Sessions |-> "idle"]
    /\ new_file = [s \in Sessions |-> FALSE]
    /\ request = [s \in Sessions |-> Req("none", 0, "")]
    /\ response = [s \in Sessions |-> InFlight]
    /\ csv_exists = FALSE
    /\ csv = <<>>
    /\ mail = <<>>
    /\ next_token = 1
    /\ issued = [s \in Sessions |-> <<>>]
    /\ accepted = [s \in Sessions |-> {}]
    /\ previewed = [s \in Sessions |-> FALSE]

Init ==
    /\ Idle
    /\ MAIL_SET \in BOOLEAN
    /\ vform = BaseForm
    /\ vresult = {}

\* One client, any request: no token, the token minted last or the one minted
\* before it (validate_csrf compares for equality, so every older token is
\* refused exactly as that one is), every form, every action.
Client == "A"

Presentable == {t \in 0..(next_token - 1) : t = 0 \/ t >= next_token - 2}

Next ==
    \/ index(Client)
    \/ \E t \in Presentable, f \in Forms : preview(Client, t, f)
    \/ \E t \in Presentable, a \in Actions : submit(Client, t, a)
    \/ csv_open(Client)
    \/ csv_open_fails(Client)
    \/ csv_write(Client)
    \/ send_email(Client)
    \/ submit_finish(Client)

Spec == Init /\ [][Next]_vars

----------------------------------------------------------------------------
(* Specification of concurrent sessions *)

\* Several clients whose requests interleave, steps of submit() included.
\* A client posts the token of the page it holds or the token stored for
\* another session, and one of the two forms that validate.
Held(s) ==
    {response[s].csrf_token} \cup {session[o].csrf_token : o \in Sessions \ {s}}

ValidForms == {f \in Forms : validate_payload(f).ok}

NextConc ==
    \/ \E s \in Sessions : index(s)
    \/ \E s \in Sessions : \E t \in Held(s), f \in ValidForms : preview(s, t, f)
    \/ \E s \in Sessions : \E t \in Held(s) : submit(s, t, "confirm")
    \/ \E s \in Sessions : csv_open(s)
    \/ \E s \in Sessions : csv_open_fails(s)
    \/ \E s \in Sessions : csv_write(s)
    \/ \E s \in Sessions : send_email(s)
    \/ \E s \in Sessions : submit_finish(s)

SpecConc == Init /\ [][NextConc]_vars

----------------------------------------------------------------------------
(* Specification of the validator *)

Websites   == { <<>>, <<" ">> }
Names      == { <<"A">>, S_JoDo, <<"1","J","o">>, Rep("a", NameMax), Rep("a", NameMax + 1) }
Depts      == { S_CSE, S_BTech, <<" ">> \o S_CSE \o <<"\n">> }
Emails     == { S_Mail, <<"a","@","b">>, <<"a"," ","@","b",".","c">> }
Phones     == { S_Phone, <<"1","2","3","4","5">>, Rep("1", PhoneMax + 1) }
Interests  == { <<" "," ","a"," ","\t"," ","b">>, <<"a","b">>, Rep("a", InterestMax + 1) }
ShortGoals == { Rep("a", ShortGoalMax), Rep("a", ShortGoalMax + 1) }
LongGoals  == { Rep("a", LongGoalMax), Rep("a", LongGoalMax + 1) }

RawForms ==
    [ website : Websites, name : Names, department : Depts, email : Emails,
      phone : Phones, interest : Interests, short_goal : ShortGoals,
      long_goal : LongGoals ]

InitValidate ==
    /\ Idle
    /\ MAIL_SET = FALSE
    /\ vform \in RawForms
    /\ vresult = {}

validate ==
    /\ vresult = {}
    /\ vresult' = {validate_payload(vform)}
    /\ UNCHANGED <<session, pc, new_file, request, response, csv_exists, csv,
                   mail, MAIL_SET, next_token, issued, accepted, vform, previewed>>

NextValidate == validate

SpecValidate == InitValidate /\ [][NextValidate]_vars

----------------------------------------------------------------------------
(* Properties *)

Last(q) == q[Len(q)]

Rows == {csv[i] : i \in 1..Len(csv)}

\* the field constraints of a record, stated on the record itself
FieldConstraints(d) ==
    /\ NAME_REGEX(d.name)
    /\ d.department \in DEPARTMENTS
    /\ EMAIL_REGEX(d.email)
    /\ PHONE_REGEX(d.phone)
    /\ Len(d.interest) \in TextMin..InterestMax
    /\ Len(d.short_goal) \in TextMin..ShortGoalMax
    /\ Len(d.long_goal) \in TextMin..LongGoalMax

\* C1: every record that submit() hands to save_to_csv, and every row of the
\* log, is a record that an accepted validate_payload call of the session
\* returned, and it satisfies the field constraints.
C1_OnlyValidatedRecordsSaved ==
    /\ \A s \in Sessions :
          pc[s] \in {"open", "write"} => session[s].form_data \subseteq accepted[s]
    /\ \A r \in Rows : r.kind = "row" =>
          /\ r.data \subseteq UNION {accepted[s] : s \in Sessions}
          /\ \A d \in r.data : FieldConstraints(d)

\* C2: a token is single-use: a POST /preview or POST /submit that passes
\* validate_csrf with token t leaves the session in a state where t no
\* longer validates.
C2_TokenSingleUse ==
    [][\A s \in Sessions, t \in 1..MaxTok :
          (/\ validate_csrf(s, t)
           /\ \/ \E f \in Forms : preview(s, t, f)
              \/ \E a \in Actions : submit(s, t, a))
          => ~validate_csrf(s, t)']_vars

\* C3: the token that validates in a session is the one its most recent
\* render minted, and no token of an earlier render validates.
C3_OnlyLatestTokenValidates ==
    \A s \in Sessions :
        /\ \A t \in 0..MaxTok :
              validate_csrf(s, t) <=> (Len(issued[s]) > 0 /\ t = Last(issued[s]))
        /\ \A i \in 1..(Len(issued[s]) - 1) : ~validate_csrf(s, issued[s][i])

\* a POST presenting the token of an earlier render has been rejected, and a
\* POST presenting the token of the latest render is acceptable
C3_Witness ==
    \E s \in Sessions :
        /\ Len(issued[s]) >= 2
        /\ request[s].kind \in {"preview", "submit"}
        /\ request[s].csrf_token = issued[s][Len(issued[s]) - 1]
        /\ response[s] = Redirect(MSG_INVALID)
        /\ validate_csrf(s, Last(issued[s]))

\* C4: once the row is appended, the confirm ends in the success view with
\* the pending record cleared and a token minted by this request, whatever
\* send_email does; send_email never raises to submit().
C4_EmailNeverBlocksSuccess ==
    [][\A s \in Sessions :
          /\ (pc[s] = "email" /\ pc'[s] # "email")
                => (pc'[s] = "finish" /\ session'[s] = session[s])
          /\ (pc[s] = "finish" /\ pc'[s] # "finish")
                => /\ pc'[s] = "idle"
                   /\ response'[s].view = "success"
                   /\ session'[s].form_data = {}
                   /\ session'[s].csrf_token = next_token
                   /\ session'[s].csrf_token # session[s].csrf_token]_vars

\* C5: when save_to_csv fails during a confirm the request ends as a server
\* error: no success view, no send_email call, no row, and the session is
\* as it was when the request came in.
C5_SaveFailureLeavesSession ==
    [][\A s \in Sessions :
          /\ (pc[s] = "idle" /\ pc'[s] = "open") => session'[s] = session[s]
          /\ (pc[s] = "open" /\ pc'[s] = "idle")
                => /\ session'[s] = session[s]
                   /\ response'[s].view = "error500"
                   /\ mail' = mail
                   /\ csv' = csv]_vars

\* a confirm has ended in a server error before any send_email call, and
\* the session still holds the pending record and the token it presented
C5_Witness ==
    \E s \in Sessions :
        /\ response[s].view = "error500"
        /\ request[s] = Req("submit", session[s].csrf_token, "confirm")
        /\ session[s].form_data # {}
        /\ mail = <<>>
        /\ csv = <<>>

\* C6: an edit with the matching token keeps the pending record, appends no
\* row, sends no notification and redirects; a GET / renders the form with
\* the pending record of the session.
C6_EditKeepsPendingRecord ==
    [][\A s \in Sessions :
          /\ (session[s].csrf_token # 0 /\ submit(s, session[s].csrf_token, "edit"))
                => /\ session'[s] = session[s]
                   /\ csv' = csv
                   /\ mail' = mail
                   /\ pc'[s] = "idle"
                   /\ response'[s] = Redirect("")
          /\ (request'[s].kind = "index" /\ response'[s].view = "form")
                => response'[s].data = session'[s].form_data]_vars

\* an edit that presented the stored token has been answered with the
\* redirect while the session holds a validated pending record
C6_Witness ==
    \E s \in Sessions :
        /\ request[s] = Req("submit", session[s].csrf_token, "edit")
        /\ response[s] = Redirect("")
        /\ session[s].form_data # {}
        /\ session[s].form_data \subseteq accepted[s]

Mismatch(s, t) == t = 0 \/ session[s].csrf_token # t

InvalidSession(s) ==
    /\ session' = session
    /\ accepted' = accepted
    /\ csv' = csv
    /\ csv_exists' = csv_exists
    /\ mail' = mail
    /\ pc' = pc
    /\ response'[s] = Redirect(MSG_INVALID)

\* C7: a POST /preview or POST /submit whose token does not match the stored
\* one, a missing or empty token included, changes neither the session nor
\* the log, calls neither the validator nor send_email, and redirects with
\* the invalid-session message.
C7_MismatchChangesNothing ==
    [][\A s \in Sessions, t \in 0..MaxTok :
          Mismatch(s, t) =>
             /\ \A f \in Forms : preview(s, t, f) => InvalidSession(s)
             /\ \A a \in Actions : submit(s, t, a) => InvalidSession(s)]_vars

\* a confirm that presented a stale token was turned away while a record
\* was pending
C7_Witness ==
    \E s \in Sessions :
        /\ request[s].kind = "submit"
        /\ request[s].action = "confirm"
        /\ request[s].csrf_token # 0
        /\ request[s].csrf_token # session[s].csrf_token
        /\ response[s] = Redirect(MSG_INVALID)
        /\ session[s].form_data # {}

Step(s) ==
    \/ index(s)
    \/ \E t \in 0..MaxTok, f \in Forms : preview(s, t, f)
    \/ \E t \in 0..MaxTok, a \in Actions : submit(s, t, a)
    \/ csv_open(s)
    \/ csv_open_fails(s)
    \/ csv_write(s)
    \/ send_email(s)
    \/ submit_finish(s)

C9_NoForeignToken ==
    \A s \in Sessions : \A o \in Sessions \ {s} :
        \A i \in 1..Len(issued[s]) : ~validate_csrf(o, issued[s][i])

C9_NoForeignEffect ==
    \A s \in Sessions :
        /\ Step(s) => \A o \in Sessions \ {s} : session'[o] = session[o]
        /\ (pc[s] = "write" /\ pc'[s] = "email")
              => /\ Last(csv') = Row(session[s].form_data)
                 /\ SubSeq(csv', 1, Len(csv)) = csv
                 /\ \A i \in (Len(csv) + 1)..(Len(csv') - 1) : csv'[i] = Header

\* C9: sessions are isolated under every interleaving: a token minted for
\* one session validates in no other, a step of one session leaves the
\* token and pending record of the others alone, and a confirm appends the
\* pending record of its own session.
C9_SessionsIsolated == []C9_NoForeignToken /\ [][C9_NoForeignEffect]_vars

\* a confirm appended its own record while another session held a different
\* pending record and a token of its own
C9_Witness ==
    \E s \in Sessions : \E o \in Sessions \ {s} :
        /\ pc[s] = "email"
        /\ Last(csv) = Row(session[s].form_data)
        /\ session[o].form_data # {}
        /\ session[o].form_data # session[s].form_data
        /\ session[o].csrf_token # 0
        /\ request[o].csrf_token = session[s].csrf_token
        /\ response[o] = Redirect(MSG_INVALID)

\* C10: under concurrent confirms the log is one header row, written first,
\* followed by one row for each save_to_csv call that returned.
C10_LogWellFormed ==
    /\ csv # <<>> => csv[1] = Header
    /\ \A i \in 2..Len(csv) : csv[i].kind = "row"
    /\ Cardinality({i \in 1..Len(csv) : csv[i].kind = "row"})
          = Len(mail) + Cardinality({s \in Sessions : pc[s] = "email"})

\* C11: POST /submit reaches save_to_csv and send_email only when its action
\* is confirm: while a request is past the checks of submit(), and so
\* whenever a row is appended or send_email is called, its action is confirm.
C11_OnlyConfirmPersists ==
    \A s \in Sessions : pc[s] # "idle" => request[s].action = "confirm"

PcOrder ==
    { <<"idle", "open">>, <<"open", "write">>, <<"open", "idle">>,
      <<"write", "email">>, <<"email", "finish">>, <<"email", "idle">>,
      <<"finish", "idle">> }

\* C12: within one confirm save_to_csv comes first and send_email second,
\* each once: the log grows by one row, at the write of save_to_csv;
\* send_email is called once, when the row of its record is in the log; the
\* pending record is cleared only after the send_email call for it returned.
C12_SaveThenEmailThenClear ==
    [][\A s \in Sessions :
          /\ pc'[s] # pc[s] => <<pc[s], pc'[s]>> \in PcOrder
          /\ (pc[s] = "write" /\ pc'[s] = "email")
                => /\ Last(csv') = Row(session[s].form_data)
                   /\ mail' = mail
          /\ csv' # csv => \E o \in Sessions : pc[o] = "write" /\ pc'[o] = "email"
          /\ (pc[s] = "email" /\ pc'[s] # "email")
                => /\ Len(mail') = Len(mail) + 1
                   /\ Last(mail').sid = s
                   /\ Row({Last(mail').data}) \in Rows
                   /\ csv' = csv
          /\ mail' # mail => \E o \in Sessions : pc[o] = "email" /\ pc'[o] # "email"
          /\ (session[s].form_data # {} /\ session'[s].form_data = {})
                => /\ pc[s] = "finish"
                   /\ Row(session[s].form_data) \in Rows
                   /\ mail # <<>>
                   /\ Last(mail).sid = s
                   /\ Last(mail).data \in session[s].form_data
                   /\ Last(mail).outcome # "raised"]_vars

\* a confirm has saved its record and then called send_email for it, and
\* has not yet cleared the pending record
C12_Witness ==
    \E s \in Sessions :
        /\ pc[s] = "finish"
        /\ session[s].form_data # {}
        /\ Last(csv) = Row(session[s].form_data)
        /\ Last(mail).data \in session[s].form_data

\* C14: a confirm in a session without a pending record appends no row,
\* sends no notification and is answered by a redirect with a flash message,
\* the invalid-session one when the token does not match and the
\* session-expired one when it does.
C14_ConfirmWithoutPendingRecord ==
    [][\A s \in Sessions, t \in 0..MaxTok :
          (session[s].form_data = {} /\ submit(s, t, "confirm"))
             => /\ csv' = csv
                /\ mail' = mail
                /\ pc' = pc
                /\ session' = session
                /\ response'[s].view = "redirect"
                /\ response'[s].flash
                      = IF Mismatch(s, t) THEN MSG_INVALID ELSE MSG_EXPIRED]_vars

\* a session that has finalized its record confirmed again with the stored
\* token and was told that the session expired
C14_Witness ==
    \E s \in Sessions :
        /\ request[s] = Req("submit", session[s].csrf_token, "confirm")
        /\ response[s] = Redirect(MSG_EXPIRED)
        /\ session[s].form_data = {}
        /\ \E i \in 1..Len(mail) : mail[i].sid = s

\* C17: a POST without a token, or with an empty one, is never accepted,
\* also not by a session that stores no token: no token never validates,
\* and the last such request was answered with the invalid-session redirect.
C17_NoTokenNeverAccepted ==
    \A s \in Sessions :
        /\ ~validate_csrf(s, 0)
        /\ (request[s].kind \in {"preview", "submit"} /\ request[s].csrf_token = 0)
              => /\ pc[s] = "idle"
                 /\ response[s] = Redirect(MSG_INVALID)

\* a session that stores no token turned away a confirm that carried none
C17_Witness ==
    \E s \in Sessions :
        /\ session[s].csrf_token = 0
        /\ request[s] = Req("submit", 0, "confirm")
        /\ response[s] = Redirect(MSG_INVALID)

\* the collection form as GET / renders it from a record (FORM_TPL): the
\* seven fields, and the honeypot left empty
Seed(d) ==
    [ website |-> <<>>, name |-> d.name, department |-> d.department,
      email |-> d.email, phone |-> d.phone, interest |-> d.interest,
      short_goal |-> d.short_goal, long_goal |-> d.long_goal ]

TextFields(form) ==
    { form.name, form.department, form.email, form.interest, form.short_goal,
      form.long_goal }

\* C16: validation is idempotent on its output: the record returned for an
\* accepted form, posted again as the seeded form, is accepted and returned
\* unchanged; clean_text and the digit stripping are idempotent on every
\* raw field.
C16_ValidationIdempotent ==
    /\ \A r \in vresult : \A d \in r.data :
          validate_payload(Seed(d)) = [ok |-> TRUE, reason |-> "", data |-> {d}]
    /\ vresult # {} =>
          /\ \A x \in TextFields(vform) : clean_text(clean_text(x)) = clean_text(x)
          /\ strip_non_digits(strip_non_digits(vform.phone))
                = strip_non_digits(vform.phone)

\* a form was accepted whose name, department, phone and interest the
\* validator had to normalise
C16_Witness ==
    \E r \in vresult : \E d \in r.data :
        /\ r.ok
        /\ d.name # vform.name
        /\ d.department # vform.department
        /\ d.phone # vform.phone
        /\ d.interest # vform.interest

\* C13: a pending record is finalized at most once: every row a session
\* appends comes after a POST /preview of that session that passed the token
\* check and after which the session appended no other row, and the success
\* view leaves no pending record.
C13_FinalizedAtMostOnce ==
    [][\A s \in Sessions :
          /\ (pc[s] = "write" /\ pc'[s] = "email") => previewed[s]
          /\ response'[s].view = "success" => session'[s].form_data = {}]_vars

\* Model bounds of the script's steps: a token is left to mint, a line is
\* left in the log.
Fresh == next_token <= MaxTok

RoomForRow == Len(csv) + Cardinality(Saving) < MaxRows

\* The page of GET / is shown: its token is the session's.
AfterIndex(s) ==
    /\ pc[s] = "idle"
    /\ response[s].view = "form"
    /\ validate_csrf(s, response[s].csrf_token)

\* The preview of validated fields is shown: its token is the session's and
\* the pending record is the validated one.
AfterPreview(s) ==
    /\ pc[s] = "idle"
    /\ response[s].view = "preview"
    /\ validate_csrf(s, response[s].csrf_token)
    /\ session[s].form_data # {}
    /\ session[s].form_data = response[s].data
    /\ session[s].form_data \subseteq accepted[s]

\* submit() stands at position p with a validated pending record.
Finalizing(s, p) ==
    /\ pc[s] = p
    /\ session[s].form_data # {}
    /\ session[s].form_data \subseteq accepted[s]

Finalized(s) ==
    /\ pc[s] = "idle"
    /\ response[s].view = "success"
    /\ session[s].form_data = {}

\* C15: the workflow never gets stuck. Between requests a GET / can always be
\* served and shows the form with the session's token; from that page a POST
\* /preview of valid fields with the rendered token always shows the preview;
\* from the preview a POST /submit action=confirm with the preview's token
\* always enters save_to_csv; and, the append succeeding, the confirm always
\* passes send_email and ends in the success view. Each step can be taken
\* and has no other outcome.
C15_WorkflowNeverStuck ==
    \A s \in Sessions :
        /\ (pc[s] = "idle" /\ Fresh) =>
              /\ ENABLED (index(s) /\ AfterIndex(s)')
              /\ ~ENABLED (index(s) /\ ~AfterIndex(s)')
        /\ (AfterIndex(s) /\ Fresh) =>
              \A f \in ValidForms :
                  /\ ENABLED (preview(s, response[s].csrf_token, f)
                                /\ AfterPreview(s)')
                  /\ ~ENABLED (preview(s, response[s].csrf_token, f)
                                 /\ ~AfterPreview(s)')
        /\ (AfterPreview(s) /\ RoomForRow) =>
              /\ ENABLED (submit(s, response[s].csrf_token, "confirm")
                            /\ Finalizing(s, "open")')
              /\ ~ENABLED (submit(s, response[s].csrf_token, "confirm")
                             /\ ~Finalizing(s, "open")')
        /\ Finalizing(s, "open") =>
              /\ ENABLED (csv_open(s) /\ Finalizing(s, "write")')
              /\ ~ENABLED (csv_open(s) /\ ~Finalizing(s, "write")')
        /\ Finalizing(s, "write") =>
              /\ ENABLED (csv_write(s) /\ Finalizing(s, "email")')
              /\ ~ENABLED (csv_write(s) /\ ~Finalizing(s, "email")')
        /\ Finalizing(s, "email") =>
              /\ ENABLED (send_email(s) /\ Finalizing(s, "finish")')
              /\ ~ENABLED (send_email(s) /\ ~Finalizing(s, "finish")')
        /\ (Finalizing(s, "finish") /\ Fresh) =>
              /\ ENABLED (submit_finish(s) /\ Finalized(s)')
              /\ ~ENABLED (submit_finish(s) /\ ~Finalized(s)')

\* The script has reached the success view with the preview's token, in a
\* session that was given a token more than the script's three.
C15_Witness ==
    \E s \in Sessions :
        /\ Finalized(s)
        /\ Len(issued[s]) >= 4
        /\ request[s] = Req("submit", issued[s][Len(issued[s]) - 1], "confirm")
        /\ Last(csv).kind = "row"
        /\ Last(csv).data \subseteq accepted[s]

FirstViolated(form) ==
    CHOOSE i \in 1..8 : ~RuleOK(i, form) /\ \A j \in 1..(i-1) : RuleOK(j, form)

\* C8: validate_payload reports the reason of the first violated rule in the
\* order honeypot, name, department, email, phone, interest, short_goal,
\* long_goal, and the bot-detection reason whenever the honeypot is filled.
C8_FirstViolatedRuleReported ==
    \A r \in vresult :
        /\ vform.website # <<>> => r = Rejected(R_BOT)
        /\ (\E i \in 1..8 : ~RuleOK(i, vform))
              => r = Rejected(Reason(FirstViolated(vform)))
        /\ (\A i \in 1..8 : RuleOK(i, vform)) => r.ok

\* a form that breaks the name rule and two later rules was rejected
C8_Witness ==
    \E r \in vresult :
        /\ ~r.ok
        /\ vform.website = <<>>
        /\ {2, 3, 5} \subseteq {i \in 1..8 : ~RuleOK(i, vform)}

TypeOK ==
    /\ \A s \in Sessions : Cardinality(session[s].form_data) <= 1
    /\ next_token \in 1..(MaxTok + 1)

====
